---------------------------- MODULE Spec2Model ----------------------------
(***************************************************************************)
(* LiquidCrystal_IIC: HD44780 character LCD behind an I2C GPIO expander    *)
(* (PCF8574 or MCP23008).  The model follows src/LiquidCrystal_IIC.cpp:    *)
(* the driver object's fields are the variables, every public method is    *)
(* an action, and the private helpers (init, LocateDevice, IdentifyIOexp,  *)
(* write4bits, pulseEnable) are operators that compute what the method     *)
(* writes to the Wire bus.                                                 *)
(*                                                                         *)
(* The Wire bus is the environment.  It is a mocked transport: `dev' maps  *)
(* every address that acknowledges to the byte a one-byte read of that     *)
(* address returns.  `wire' is the list of bus transactions issued by the  *)
(* most recent call, in order, each with the bytes it wrote (or read).     *)
(*                                                                         *)
(* I2CIO (src/I2CIO.cpp), the byte and pin interface to the expander, is   *)
(* a second object on the same bus, with its own fields and methods.       *)
(* Where the answer of the device depends on what was written to it,       *)
(* `chip' holds the state of a PCF8574 or of an MCP23008.                  *)
(***************************************************************************)
EXTENDS Integers, Sequences, FiniteSets, TLC

VARIABLES
    _Addr,              \* uint8_t: I2C address of the expander, or IIC_ADDR_UNKNOWN
    _iicType,           \* chip type of the expander
    _backlightPinMask,  \* uint8_t: backlight pin mask, 0 = no backlight control
    _backlightStsMask,  \* uint8_t: backlight status mask, OR-ed into every nibble
    _polarity,          \* backlight polarity
    _En,                \* uint8_t: mask of the enable pin
    _Rw,                \* uint8_t: mask of the R/W pin
    _Rs,                \* uint8_t: mask of the register-select pin
    _data_pins,         \* uint8_t[4]: masks of d4..d7 (1-indexed here)
    dev,                \* the bus: acknowledging address -> byte a read returns
    chip,               \* the state of the expander chip, where one is modelled
    wire,               \* bus transactions issued by the last call
    status,             \* value returned by the last run of init()
    phase,              \* "constructed" until begin() has run, then "begun"
    sent,               \* send() has put a transaction on the bus
    call,               \* the last call: its name, arguments, and the
                        \* address and chip type the object held on entry
    _i2cAddr,           \* I2CIO: uint8_t, I2C address of the device
    _dirMask,           \* I2CIO: uint8_t, direction mask, 1 = input
    _shadow,            \* I2CIO: uint8_t, output shadow
    _initialised,       \* I2CIO: begin() has found the device
    _chipType,          \* I2CIO: chip type, 0 for the MCP23008
    lastOut,            \* I2CIO: last byte write() transmitted, -1 if none
    retVal              \* I2CIO: value returned by the last call

vars == << _Addr, _iicType, _backlightPinMask, _backlightStsMask, _polarity,
           _En, _Rw, _Rs, _data_pins, dev, wire, status, phase, sent, call,
           _i2cAddr, _dirMask, _shadow, _initialised, _chipType, lastOut,
           retVal, chip >>

pinVars == << _En, _Rw, _Rs, _data_pins >>

\* the fields of the LiquidCrystal_IIC object
lcdVars == << _Addr, _iicType, _backlightPinMask, _backlightStsMask, _polarity,
              pinVars, status, phase, sent >>

\* the fields of the I2CIO object
ioVars == << _i2cAddr, _dirMask, _shadow, _initialised, _chipType, lastOut,
             retVal >>

-----------------------------------------------------------------------------
(* Program constants *)

\* typedef enum { IIC_UNKNOWN, IIC_PCF8574, IIC_MCP23008 } iicChipType;
IIC_UNKNOWN == 0
IIC_PCF8574 == 1
IIC_MCP23008 == 2

\* #define IIC_ADDR_UNKNOWN 0xff
IIC_ADDR_UNKNOWN == 255

\* last address of the scan loop: for(address = 0; address <= 127; address++)
LastAddress == 127

\* MCP23008 register numbers written by the driver
MCP_IODIR == 0
MCP_IOCON == 5
MCP_OLAT == 10

\* IOCON value that disables sequential mode (0x20)
IOCON_BYTE_MODE == 32

\* '\r' and '\n'
CR == 13
LF == 10

\* LCD.h (base class, not among the sources): command/data selectors of
\* send().  write4bits ORs a non-DATA mode into the port byte unchanged, so
\* "command mode leaves register-select low" fixes COMMAND at 0.
COMMAND == 0
DATA == 1
FOUR_BITS == 2

\* LCD.h: typedef enum { POSITIVE, NEGATIVE } t_backlighPol;
POSITIVE == 0
NEGATIVE == 1

\* LCD.h: #define BACKLIGHT_ON 255
BACKLIGHT_ON == 255

Byte == 0..255
Modes == {COMMAND, DATA, FOUR_BITS}
Polarities == {POSITIVE, NEGATIVE}
ChipTypes == {IIC_UNKNOWN, IIC_PCF8574, IIC_MCP23008}

-----------------------------------------------------------------------------
(* uint8_t arithmetic *)

\* bit i of x
Bit(x, i) == (x \div (2^i)) % 2

\* a | b, bit by bit from the least significant
RECURSIVE Or(_, _)
Or(a, b) ==
    IF a = 0 THEN b
    ELSE IF b = 0 THEN a
    ELSE (IF a % 2 = 1 \/ b % 2 = 1 THEN 1 ELSE 0) + 2 * Or(a \div 2, b \div 2)

\* a & b, bit by bit from the least significant
RECURSIVE And(_, _)
And(a, b) ==
    IF a = 0 \/ b = 0 THEN 0
    ELSE (IF a % 2 = 1 /\ b % 2 = 1 THEN 1 ELSE 0) + 2 * And(a \div 2, b \div 2)

\* (uint8_t) ~a
Not8(a) == 255 - a

\* (uint8_t)(1 << n), n < 16
Shl1(n) == (2^n) % 256

-----------------------------------------------------------------------------
(* The Wire bus *)

\* one bus transaction: who issued it, the address, write or read, the bytes
Tx(by, addr, rd, bytes) == [by |-> by, addr |-> addr, rd |-> rd, bytes |-> bytes]

\* Wire.endTransmission(): 0 when the addressed device acknowledged,
\* 2 (NACK on address) otherwise
EndTransmission(address) == IF address \in DOMAIN dev THEN 0 ELSE 2

\* Wire.requestFrom(address, 1); data = Wire.read();
\* read() returns -1 when nothing was received, stored in a uint8_t as 0xFF
WireRead(address) == IF address \in DOMAIN dev THEN dev[address] ELSE 255

-----------------------------------------------------------------------------
(* Private methods: what each writes to the bus *)

\* write4bits with the R/W mask taken for the register-select mask
write4bits_RwForData(value, mode) ==
    LET pin(i) == IF Bit(value, i) = 1 THEN _data_pins[i + 1] ELSE 0
        pinMapValue == Or(Or(Or(Or(0, pin(0)), pin(1)), pin(2)), pin(3))
        rs == IF mode = DATA THEN _Rw ELSE mode
        data == Or(pinMapValue, Or(rs, _backlightStsMask))
    IN  << Or(data, _En), And(data, Not8(_En)) >>

\* write4bits that raises register-select whatever the mode
write4bits_RsAlways(value, mode) ==
    LET pin(i) == IF Bit(value, i) = 1 THEN _data_pins[i + 1] ELSE 0
        pinMapValue == Or(Or(Or(Or(0, pin(0)), pin(1)), pin(2)), pin(3))
        data == Or(pinMapValue, Or(_Rs, _backlightStsMask))
    IN  << Or(data, _En), And(data, Not8(_En)) >>

\* write4bits that leaves the backlight status mask out
write4bits_NoBacklight(value, mode) ==
    LET pin(i) == IF Bit(value, i) = 1 THEN _data_pins[i + 1] ELSE 0
        pinMapValue == Or(Or(Or(Or(0, pin(0)), pin(1)), pin(2)), pin(3))
        rs == IF mode = DATA THEN _Rs ELSE mode
        data == Or(pinMapValue, rs)
    IN  << Or(data, _En), And(data, Not8(_En)) >>

\* pulseEnable(data): Wire.write(data | _En); Wire.write(data & ~_En);
pulseEnable(data) == << Or(data, _En), And(data, Not8(_En)) >>

\* write4bits(value, mode): map the four low bits of value onto the data
\* pins (least significant first), OR in _Rs for DATA (any other mode is
\* OR-ed in as it is) and the backlight status mask, then pulse enable
write4bits(value, mode) ==
    LET pin(i) == IF Bit(value, i) = 1 THEN _data_pins[i + 1] ELSE 0
        pinMapValue == Or(Or(Or(Or(0, pin(0)), pin(1)), pin(2)), pin(3))
        rs == IF mode = DATA THEN _Rs ELSE mode
    IN  pulseEnable(Or(pinMapValue, Or(rs, _backlightStsMask)))

\* if(_iicType == IIC_MCP23008) Wire.write(0x0A); // point to OLAT
\* for an object whose chip type is `type'
OlatPointerOf(type) == IF type = IIC_MCP23008 THEN << MCP_OLAT >> ELSE << >>

\* the same for the chip type the object holds now
OlatPointer == OlatPointerOf(_iicType)

\* send without the test for the unresolved address
send_NoAddrCheck(value, mode) ==
    IF mode = FOUR_BITS
    THEN << Tx("send", _Addr, FALSE,
               OlatPointer \o write4bits(And(value, 15), COMMAND)) >>
    ELSE IF mode = DATA /\ (value = CR \/ value = LF) THEN << >>
    ELSE << Tx("send", _Addr, FALSE,
               OlatPointer \o write4bits(value \div 16, mode)
                           \o write4bits(And(value, 15), mode)) >>

\* send that tosses '\r' and '\n' without looking at the mode
send_FilterAnyMode(value, mode) ==
    IF _Addr = IIC_ADDR_UNKNOWN THEN << >>
    ELSE IF mode = FOUR_BITS
    THEN << Tx("send", _Addr, FALSE,
               OlatPointer \o write4bits(And(value, 15), COMMAND)) >>
    ELSE IF value = CR \/ value = LF THEN << >>
    ELSE << Tx("send", _Addr, FALSE,
               OlatPointer \o write4bits(value \div 16, mode)
                           \o write4bits(And(value, 15), mode)) >>

\* send that writes the low nibble before the high nibble
send_LowNibbleFirst(value, mode) ==
    IF _Addr = IIC_ADDR_UNKNOWN THEN << >>
    ELSE IF mode = FOUR_BITS
    THEN << Tx("send", _Addr, FALSE,
               OlatPointer \o write4bits(And(value, 15), COMMAND)) >>
    ELSE IF mode = DATA /\ (value = CR \/ value = LF) THEN << >>
    ELSE << Tx("send", _Addr, FALSE,
               OlatPointer \o write4bits(And(value, 15), mode)
                           \o write4bits(value \div 16, mode)) >>

\* send(value, mode) on an object whose address is `addr' and whose chip
\* type is `type': the transactions it issues
sendOn(addr, type, value, mode) ==
    IF addr = IIC_ADDR_UNKNOWN THEN << >>
    ELSE IF mode = FOUR_BITS
    THEN << Tx("send", addr, FALSE,
               OlatPointerOf(type) \o write4bits(And(value, 15), COMMAND)) >>
    ELSE IF mode = DATA /\ (value = CR \/ value = LF) THEN << >>
    ELSE << Tx("send", addr, FALSE,
               OlatPointerOf(type) \o write4bits(value \div 16, mode)
                                   \o write4bits(And(value, 15), mode)) >>

\* send whose 4-bit path writes the high nibble of the value
send_FourBitsHighNibble(value, mode) ==
    IF _Addr = IIC_ADDR_UNKNOWN THEN << >>
    ELSE IF mode = FOUR_BITS
    THEN << Tx("send", _Addr, FALSE,
               OlatPointer \o write4bits(value \div 16, COMMAND)) >>
    ELSE IF mode = DATA /\ (value = CR \/ value = LF) THEN << >>
    ELSE << Tx("send", _Addr, FALSE,
               OlatPointer \o write4bits(value \div 16, mode)
                           \o write4bits(And(value, 15), mode)) >>

\* send(value, mode): the transactions it issues
send(value, mode) == sendOn(_Addr, _iicType, value, mode)

\* the status mask computed without regard to the polarity
backlightSts_IgnorePolarity(value) ==
    IF value > 0 THEN _backlightPinMask ELSE 0

\* setBacklight(value): the status mask it computes
backlightSts(value) ==
    IF (_polarity = POSITIVE /\ value > 0) \/ (_polarity = NEGATIVE /\ value = 0)
    THEN _backlightPinMask
    ELSE 0

\* setBacklight without the OLAT pointer
setBacklight_NoPointer(value) ==
    IF _backlightPinMask # 0
    THEN << Tx("setBacklight", _Addr, FALSE, << backlightSts(value) >>) >>
    ELSE << >>

\* setBacklight(value) on an object whose address is `addr' and whose chip
\* type is `type': the transaction it issues
setBacklightOn(addr, type, value) ==
    IF _backlightPinMask # 0
    THEN << Tx("setBacklight", addr, FALSE,
               OlatPointerOf(type) \o << backlightSts(value) >>) >>
    ELSE << >>

\* setBacklight(value): the transaction it issues
setBacklight(value) == setBacklightOn(_Addr, _iicType, value)

\* IdentifyIOexp without the second transaction, which points back to
\* location 0
IdentifyIOexp_OneWrite(address) ==
    LET data == WireRead(address)
    IN  [ chiptype |-> IF data = 255 THEN IIC_MCP23008
                       ELSE IF data = 0 THEN IIC_PCF8574
                       ELSE IIC_UNKNOWN,
          log |-> << Tx("IdentifyIOexp", address, FALSE, << 0, 255 >>),
                     Tx("IdentifyIOexp", address, TRUE, << data >>) >> ]

\* IdentifyIOexp that takes any byte with the top bit set for an MCP23008
IdentifyIOexp_TopBit(address) ==
    LET data == WireRead(address)
    IN  [ chiptype |-> IF data >= 128 THEN IIC_MCP23008
                       ELSE IF data = 0 THEN IIC_PCF8574
                       ELSE IIC_UNKNOWN,
          log |-> << Tx("IdentifyIOexp", address, FALSE, << 0, 255 >>),
                     Tx("IdentifyIOexp", address, FALSE, << 0 >>),
                     Tx("IdentifyIOexp", address, TRUE, << data >>) >> ]

\* IdentifyIOexp(address): write 0xff to location 0, point to location 0,
\* read one byte and classify it
IdentifyIOexp(address) ==
    LET data == WireRead(address)
    IN  [ chiptype |-> IF data = 255 THEN IIC_MCP23008
                       ELSE IF data = 0 THEN IIC_PCF8574
                       ELSE IIC_UNKNOWN,
          log |-> << Tx("IdentifyIOexp", address, FALSE, << 0, 255 >>),
                     Tx("IdentifyIOexp", address, FALSE, << 0 >>),
                     Tx("IdentifyIOexp", address, TRUE, << data >>) >> ]

\* a loop iteration that breaks at any device that acknowledges
ScanStep_FirstAck(address) ==
    LET probe == << Tx("LocateDevice", address, FALSE, << >>) >>
    IN  IF EndTransmission(address) = 0
        THEN [ found |-> TRUE, rval |-> address,
               log |-> probe \o IdentifyIOexp(address).log ]
        ELSE [ found |-> FALSE, rval |-> address, log |-> probe ]

\* one iteration of LocateDevice's for loop: probe `address' with an empty
\* transaction; if it acknowledges, identify it; found = the loop breaks
\* here with rval = address
ScanStep(address) ==
    LET probe == << Tx("LocateDevice", address, FALSE, << >>) >>
    IN  IF EndTransmission(address) = 0
        THEN LET id == IdentifyIOexp(address)
             IN  [ found |-> id.chiptype # IIC_UNKNOWN, rval |-> address,
                   log |-> probe \o id.log ]
        ELSE [ found |-> FALSE, rval |-> address, log |-> probe ]

\* the loop without its break: it goes on probing after it has found the
\* device
RECURSIVE ScanRange_NoBreak(_, _)
ScanRange_NoBreak(lo, hi) ==
    IF lo = hi THEN ScanStep(lo)
    ELSE LET mid == (lo + hi) \div 2
             first == ScanRange_NoBreak(lo, mid)
             rest == ScanRange_NoBreak(mid + 1, hi)
         IN  [ found |-> first.found \/ rest.found,
               rval |-> IF first.found THEN first.rval ELSE rest.rval,
               log |-> first.log \o rest.log ]

\* the iterations lo..hi of the loop, run in ascending order up to the
\* first one that breaks (the range is halved to keep the evaluation flat)
RECURSIVE ScanRange(_, _)
ScanRange(lo, hi) ==
    IF lo = hi THEN ScanStep(lo)
    ELSE LET mid == (lo + hi) \div 2
             first == ScanRange(lo, mid)
         IN  IF first.found THEN first
             ELSE LET rest == ScanRange(mid + 1, hi)
                  IN  [ found |-> rest.found, rval |-> rest.rval,
                        log |-> first.log \o rest.log ]

\* LocateDevice(): for(address = 0; address <= 127; address++) ...
LocateDevice ==
    LET scan == ScanRange(0, LastAddress)
    IN  [ rval |-> IF scan.found THEN scan.rval ELSE IIC_ADDR_UNKNOWN,
          log |-> scan.log ]

\* the configuration that leaves the MCP23008 in sequential mode
ConfigWrites_NoByteMode(addr, type) ==
    IF type = IIC_MCP23008
    THEN << Tx("init", addr, FALSE, << MCP_IODIR, 0 >>),
            Tx("init", addr, FALSE, << MCP_OLAT, 0 >>) >>
    ELSE << Tx("init", addr, FALSE, << 0 >>) >>

\* the configuration that sets every output of the port high
ConfigWrites_PortHigh(addr, type) ==
    IF type = IIC_MCP23008
    THEN << Tx("init", addr, FALSE, << MCP_IOCON, IOCON_BYTE_MODE >>),
            Tx("init", addr, FALSE, << MCP_IODIR, 0 >>),
            Tx("init", addr, FALSE, << MCP_OLAT, 255 >>) >>
    ELSE << Tx("init", addr, FALSE, << 255 >>) >>

\* the configuration with the output latch written before byte mode is set
ConfigWrites_LatchFirst(addr, type) ==
    IF type = IIC_MCP23008
    THEN << Tx("init", addr, FALSE, << MCP_OLAT, 0 >>),
            Tx("init", addr, FALSE, << MCP_IODIR, 0 >>),
            Tx("init", addr, FALSE, << MCP_IOCON, IOCON_BYTE_MODE >>) >>
    ELSE << Tx("init", addr, FALSE, << 0 >>) >>

\* the expander configuration written by init() for a device of type
\* `type' at `addr'
ConfigWrites(addr, type) ==
    IF type = IIC_MCP23008
    THEN << Tx("init", addr, FALSE, << MCP_IOCON, IOCON_BYTE_MODE >>),
            Tx("init", addr, FALSE, << MCP_IODIR, 0 >>),
            Tx("init", addr, FALSE, << MCP_OLAT, 0 >>) >>
    ELSE << Tx("init", addr, FALSE, << 0 >>) >>

\* init that goes on to configure a chip it could not identify
init_NoTypeCheck ==
    LET loc == IF _Addr = IIC_ADDR_UNKNOWN
               THEN LocateDevice
               ELSE [ rval |-> _Addr, log |-> << >> ]
    IN  IF loc.rval = IIC_ADDR_UNKNOWN
        THEN [ addr |-> loc.rval, type |-> _iicType, status |-> -1,
               log |-> loc.log ]
        ELSE LET id == IF _iicType = IIC_UNKNOWN
                       THEN IdentifyIOexp(loc.rval)
                       ELSE [ chiptype |-> _iicType, log |-> << >> ]
             IN  [ addr |-> loc.rval, type |-> id.chiptype,
                   status |-> EndTransmission(loc.rval),
                   log |-> loc.log \o id.log
                           \o ConfigWrites(loc.rval, id.chiptype) ]

\* init that takes the chip type from the identification of the located
\* device whatever type the constructor was given
init_TypeFromProbe ==
    LET loc == IF _Addr = IIC_ADDR_UNKNOWN
               THEN LocateDevice
               ELSE [ rval |-> _Addr, log |-> << >> ]
    IN  IF loc.rval = IIC_ADDR_UNKNOWN
        THEN [ addr |-> loc.rval, type |-> _iicType, status |-> -1,
               log |-> loc.log ]
        ELSE LET id == IdentifyIOexp(loc.rval)
             IN  IF id.chiptype = IIC_UNKNOWN
                 THEN [ addr |-> loc.rval, type |-> id.chiptype, status |-> -1,
                        log |-> loc.log \o id.log ]
                 ELSE [ addr |-> loc.rval, type |-> id.chiptype,
                        status |-> EndTransmission(loc.rval),
                        log |-> loc.log \o id.log
                                \o ConfigWrites(loc.rval, id.chiptype) ]

\* init(): the address and chip type it leaves in the object, the status it
\* returns and the transactions it issues
init ==
    LET loc == IF _Addr = IIC_ADDR_UNKNOWN
               THEN LocateDevice
               ELSE [ rval |-> _Addr, log |-> << >> ]
    IN  IF loc.rval = IIC_ADDR_UNKNOWN
        THEN [ addr |-> loc.rval, type |-> _iicType, status |-> -1,
               log |-> loc.log ]
        ELSE LET id == IF _iicType = IIC_UNKNOWN
                       THEN IdentifyIOexp(loc.rval)
                       ELSE [ chiptype |-> _iicType, log |-> << >> ]
             IN  IF id.chiptype = IIC_UNKNOWN
                 THEN [ addr |-> loc.rval, type |-> id.chiptype, status |-> -1,
                        log |-> loc.log \o id.log ]
                 ELSE [ addr |-> loc.rval, type |-> id.chiptype,
                        status |-> EndTransmission(loc.rval),
                        log |-> loc.log \o id.log
                                \o ConfigWrites(loc.rval, id.chiptype) ]

-----------------------------------------------------------------------------
(* The expander chips, as IdentifyIOexp takes them to behave *)

\* no chip is modelled: the device answers every read with the same byte
NoChip == [ kind |-> "none" ]

\* a PCF8574 whose port holds `port'
PCF8574(port) == [ kind |-> "PCF8574", port |-> port ]

\* an MCP23008 whose register pointer is ptr and whose registers 0..10
\* hold regs
MCP23008(ptr, regs) == [ kind |-> "MCP23008", ptr |-> ptr, regs |-> regs ]

\* the MCP23008 steps its register pointer after every byte unless IOCON
\* has the byte-mode bit set
PtrAfter(c) ==
    IF And(c.regs[MCP_IOCON], IOCON_BYTE_MODE) # 0 THEN c.ptr
    ELSE (c.ptr + 1) % (MCP_OLAT + 1)

\* the bytes of one write transaction reach the chip: on a PCF8574 each
\* byte replaces the port; on an MCP23008 the first sets the register
\* pointer and each of the others is written to the register pointed to
RECURSIVE ChipWrite(_, _, _)
ChipWrite(c, bytes, first) ==
    IF bytes = << >> \/ c.kind = "none" THEN c
    ELSE IF c.kind = "PCF8574"
    THEN ChipWrite(PCF8574(Head(bytes)), Tail(bytes), FALSE)
    ELSE IF first
    THEN ChipWrite(MCP23008(Head(bytes) % (MCP_OLAT + 1), c.regs), Tail(bytes), FALSE)
    ELSE LET w == [ c EXCEPT !.regs[c.ptr] = Head(bytes) ]
         IN  ChipWrite([ w EXCEPT !.ptr = PtrAfter(w) ], Tail(bytes), FALSE)

\* the write transactions of a log reach the chip one after the other
RECURSIVE ChipApply(_, _)
ChipApply(c, log) ==
    IF log = << >> THEN c
    ELSE ChipApply(IF Head(log).rd THEN c ELSE ChipWrite(c, Head(log).bytes, TRUE),
                   Tail(log))

\* the byte the chip answers a one-byte read with: the port of a PCF8574,
\* the register pointed to of an MCP23008
ChipRead(c) == IF c.kind = "PCF8574" THEN c.port ELSE c.regs[c.ptr]

\* the chip after it has answered a one-byte read
ChipAfterRead(c) ==
    IF c.kind = "MCP23008" THEN [ c EXCEPT !.ptr = PtrAfter(c) ] ELSE c

\* the values the output port of a PCF8574, or the output latch OLAT of an
\* MCP23008, takes while the bytes of one write transaction reach the chip
RECURSIVE LatchBytes(_, _, _)
LatchBytes(c, bytes, first) ==
    IF bytes = << >> \/ c.kind = "none" THEN << >>
    ELSE IF c.kind = "PCF8574" THEN bytes
    ELSE IF first
    THEN LatchBytes(MCP23008(Head(bytes) % (MCP_OLAT + 1), c.regs), Tail(bytes), FALSE)
    ELSE LET w == [ c EXCEPT !.regs[c.ptr] = Head(bytes) ]
         IN  (IF c.ptr = MCP_OLAT THEN << Head(bytes) >> ELSE << >>)
                \o LatchBytes([ w EXCEPT !.ptr = PtrAfter(w) ], Tail(bytes), FALSE)

\* the values the port or latch takes during the transactions of a log
RECURSIVE LatchTrace(_, _)
LatchTrace(c, log) ==
    IF log = << >> \/ c.kind = "none" THEN << >>
    ELSE LET t == Head(log)
         IN  IF t.addr \notin DOMAIN dev THEN LatchTrace(c, Tail(log))
             ELSE IF t.rd THEN LatchTrace(ChipAfterRead(c), Tail(log))
             ELSE LatchBytes(c, t.bytes, TRUE)
                     \o LatchTrace(ChipWrite(c, t.bytes, TRUE), Tail(log))

\* the chip after the transactions of a log: the chip is the device that
\* acknowledges, so a transaction to another address does not reach it
RECURSIVE ChipRun(_, _)
ChipRun(c, log) ==
    IF log = << >> \/ c.kind = "none" THEN c
    ELSE LET t == Head(log)
         IN  ChipRun(IF t.addr \notin DOMAIN dev THEN c
                     ELSE IF t.rd THEN ChipAfterRead(c)
                     ELSE ChipWrite(c, t.bytes, TRUE),
                     Tail(log))

-----------------------------------------------------------------------------
(* Public methods *)

Call(name, args) ==
    [ name |-> name, args |-> args, addr0 |-> _Addr, type0 |-> _iicType ]

\* LCD::begin (base class, not among the sources) for a 4-bit interface
\* and a two-line display: the reset nibbles 3, 3, 3, 2 through the 4-bit
\* path, then the commands function set, display on, clear and entry mode
LCD_beginSends ==
    << << 3, FOUR_BITS >>, << 3, FOUR_BITS >>, << 3, FOUR_BITS >>,
       << 2, FOUR_BITS >>, << 40, COMMAND >>, << 12, COMMAND >>,
       << 1, COMMAND >>, << 6, COMMAND >> >>

\* LCD::begin on an object whose address is `addr' and whose chip type is
\* `type': it calls send() for each of the bytes above and then
\* backlight(), which is setBacklight(BACKLIGHT_ON)
RECURSIVE LCD_beginLog(_, _, _)
LCD_beginLog(addr, type, i) ==
    IF i > Len(LCD_beginSends)
    THEN setBacklightOn(addr, type, BACKLIGHT_ON)
    ELSE sendOn(addr, type, LCD_beginSends[i][1], LCD_beginSends[i][2])
            \o LCD_beginLog(addr, type, i + 1)

\* begin(cols, lines, dotsize): init(), whose status is dropped, then
\* LCD::begin, which drives the object init() has left
Begin ==
    LET r == init
    IN  /\ _Addr' = r.addr
        /\ _iicType' = r.type
        /\ status' = r.status
        /\ wire' = r.log \o LCD_beginLog(r.addr, r.type, 1)
        /\ _backlightStsMask' = IF _backlightPinMask # 0
                                THEN backlightSts(BACKLIGHT_ON)
                                ELSE _backlightStsMask
        /\ sent' = (sent \/ r.addr # IIC_ADDR_UNKNOWN)
        /\ phase' = "begun"
        /\ call' = Call("begin", << >>)
        /\ chip' = ChipRun(chip, wire')
        /\ UNCHANGED << _backlightPinMask, _polarity, pinVars, dev, ioVars >>

Send(value, mode) ==
    /\ wire' = send(value, mode)
    /\ sent' = (sent \/ send(value, mode) # << >>)
    /\ call' = Call("send", << value, mode >>)
    /\ chip' = ChipRun(chip, wire')
    /\ UNCHANGED << _Addr, _iicType, _backlightPinMask, _backlightStsMask,
                    _polarity, pinVars, dev, status, phase, ioVars >>

\* setBacklightPin that pushes the new backlight bit to the expander
SetBacklightPin_Writes(value, pol) ==
    /\ _backlightPinMask' = Shl1(value)
    /\ _polarity' = pol
    /\ wire' = << Tx("setBacklightPin", _Addr, FALSE, OlatPointer \o << 0 >>) >>
    /\ call' = Call("setBacklightPin", << value, pol >>)
    /\ UNCHANGED << _Addr, _iicType, _backlightStsMask, pinVars, dev, chip,
                    status, phase, sent, ioVars >>

\* setBacklightPin(value, pol): records the pin mask and the polarity
SetBacklightPin(value, pol) ==
    /\ _backlightPinMask' = Shl1(value)
    /\ _polarity' = pol
    /\ wire' = << >>
    /\ call' = Call("setBacklightPin", << value, pol >>)
    /\ UNCHANGED << _Addr, _iicType, _backlightStsMask, pinVars, dev, chip,
                    status, phase, sent, ioVars >>

SetBacklight(value) ==
    /\ _backlightStsMask' = IF _backlightPinMask # 0
                            THEN backlightSts(value)
                            ELSE _backlightStsMask
    /\ wire' = setBacklight(value)
    /\ call' = Call("setBacklight", << value >>)
    /\ chip' = ChipRun(chip, wire')
    /\ UNCHANGED << _Addr, _iicType, _backlightPinMask, _polarity, pinVars,
                    dev, status, phase, sent, ioVars >>

-----------------------------------------------------------------------------
(* The caller.  The driver is single-threaded: a method runs to its end,   *)
(* `call' and `wire' then show what it did, and the caller goes on.        *)

\* no call is being looked at: the caller may make the next one
Ready == call.name \in { "constructor", "none" }

\* the caller has seen what the last call did and goes on
Return ==
    /\ ~Ready
    /\ call' = [ name |-> "none", args |-> << >>,
                 addr0 |-> _Addr, type0 |-> _iicType ]
    /\ wire' = << >>
    /\ UNCHANGED << lcdVars, dev, chip, ioVars >>

-----------------------------------------------------------------------------
(* Construction *)

\* a wiring: the expander pin numbers of en, rw, rs and d4..d7
Wiring(En, Rw, Rs, d4, d5, d6, d7) ==
    [ En |-> En, Rw |-> Rw, Rs |-> Rs, d |-> << d4, d5, d6, d7 >> ]

\* the pin numbers of the canned boards (IIC_BOARD_*), and the backlight
\* pin and polarity of those that have one
IIC_BOARD_EXTRAIO == Wiring(6, 5, 4, 0, 1, 2, 3)
IIC_BOARD_MJKDZ == Wiring(4, 5, 6, 0, 1, 2, 3)
IIC_BOARD_LCM1602 == Wiring(2, 1, 0, 4, 5, 6, 7)
IIC_BOARD_ADAFRUIT == Wiring(2, 0, 1, 3, 4, 5, 6)
IIC_BOARD_EXTRAIOnBL_bl == << 7, NEGATIVE >>
IIC_BOARD_ADAFRUIT_bl == << 7, POSITIVE >>

BoardWirings ==
    { IIC_BOARD_EXTRAIO, IIC_BOARD_MJKDZ, IIC_BOARD_LCM1602, IIC_BOARD_ADAFRUIT }

\* the wiring w moved up by k pin positions, wrapping round
Rotate(w, k) ==
    LET r(p) == (p + k) % 8
    IN  Wiring(r(w.En), r(w.Rw), r(w.Rs), r(w.d[1]), r(w.d[2]), r(w.d[3]), r(w.d[4]))

\* the pin numbers a wiring leaves unused
FreePins(w) == (0..7) \ { w.En, w.Rw, w.Rs, w.d[1], w.d[2], w.d[3], w.d[4] }

\* config(iic_Addr, iic_type, En, Rw, Rs, d4, d5, d6, d7)
config(iic_Addr, iic_type, w) ==
    /\ _iicType = iic_type
    /\ _Addr = iic_Addr
    /\ _backlightStsMask = 0
    /\ _En = Shl1(w.En)
    /\ _Rw = Shl1(w.Rw)
    /\ _Rs = Shl1(w.Rs)
    /\ _data_pins = << Shl1(w.d[1]), Shl1(w.d[2]), Shl1(w.d[3]), Shl1(w.d[4]) >>

\* the constructors: config(), then setBacklightPin(backlightPin, pol) when
\* a backlight pin is given (bl = << pin, pol >>, or << >> for none)
Constructed(iic_addr, iic_type, w, bl) ==
    /\ config(iic_addr, iic_type, w)
    /\ _backlightPinMask = IF bl = << >> THEN 0 ELSE Shl1(bl[1])
    /\ _polarity = IF bl = << >> THEN POSITIVE ELSE bl[2]
    /\ wire = << >>
    /\ status = 0
    /\ phase = "constructed"
    /\ sent = FALSE
    /\ call = [ name |-> "constructor", args |-> << >>,
                addr0 |-> iic_addr, type0 |-> iic_type ]

-----------------------------------------------------------------------------
(* I2CIO: byte and pin access to the expander (src/I2CIO.cpp) *)

\* I2CIO.h: register numbers of the MCP23008
MCP23008_IODIR == MCP_IODIR
MCP23008_IOCON == MCP_IOCON
MCP23008_GPIO == 9

\* Arduino.h: pin directions and levels
INPUT == 0
OUTPUT == 1
LOW == 0
HIGH == 1

\* if (!_chipType): the chip is driven as an MCP23008, through a register
\* number sent ahead of the value
IsMCP(chiptype) == chiptype = 0

\* I2CIO::I2CIO(): _chipType is not initialised, c is what it happens to
\* hold
I2CIO(c) ==
    /\ _i2cAddr = 0
    /\ _dirMask = 255
    /\ _shadow = 0
    /\ _initialised = FALSE
    /\ _chipType = c
    /\ lastOut = -1
    /\ retVal = 0

\* write that transmits the value as it was given
write_Unmasked(i2cAddr, chiptype, cmd, value, shadow) ==
    IF _initialised
    THEN LET sh == And(value, Not8(_dirMask))
             ok == EndTransmission(i2cAddr) = 0
         IN  [ shadow |-> sh, ret |-> IF ok THEN 1 ELSE 0,
               out |-> IF ok THEN value ELSE lastOut,
               log |-> << Tx("write", i2cAddr, FALSE,
                             (IF IsMCP(chiptype) THEN << cmd >> ELSE << >>)
                                 \o << value >>) >> ]
    ELSE [ shadow |-> shadow, ret |-> 1, out |-> lastOut, log |-> << >> ]

\* I2CIO::write(cmd, value) on a handle whose address is i2cAddr, whose
\* chip type is chiptype and whose output shadow is `shadow': the shadow it
\* leaves, the value it returns, the last byte transmitted and the
\* transaction it issues
write(i2cAddr, chiptype, cmd, value, shadow) ==
    IF _initialised
    THEN LET sh == And(value, Not8(_dirMask))
             ok == EndTransmission(i2cAddr) = 0
         IN  [ shadow |-> sh, ret |-> IF ok THEN 1 ELSE 0,
               out |-> IF ok THEN sh ELSE lastOut,
               log |-> << Tx("write", i2cAddr, FALSE,
                             (IF IsMCP(chiptype) THEN << cmd >> ELSE << >>)
                                 \o << sh >>) >> ]
    ELSE [ shadow |-> shadow, ret |-> 1, out |-> lastOut, log |-> << >> ]

\* I2CIO::read(cmd): the value it returns and the transactions it issues
read(cmd) ==
    IF _initialised
    THEN [ ret |-> And(_dirMask, WireRead(_i2cAddr)),
           log |-> (IF IsMCP(_chipType)
                    THEN << Tx("read", _i2cAddr, FALSE, << cmd >>) >>
                    ELSE << >>)
                   \o << Tx("read", _i2cAddr, TRUE, << WireRead(_i2cAddr) >>) >> ]
    ELSE [ ret |-> 0, log |-> << >> ]

\* I2CIO::begin(i2cAddr, chiptype).  For an MCP23008 the three write()
\* calls run inside a transaction begin() has opened: each opens and closes
\* its own, so the endTransmission() of begin() closes an empty one.
I2CIO_begin(i2cAddr, chiptype) ==
    /\ _i2cAddr' = i2cAddr
    /\ _chipType' = chiptype
    /\ LET w1 == write(i2cAddr, chiptype, MCP23008_IOCON, IOCON_BYTE_MODE, _shadow)
           w2 == write(i2cAddr, chiptype, MCP23008_IODIR, 0, w1.shadow)
           w3 == write(i2cAddr, chiptype, MCP23008_GPIO, 0, w2.shadow)
           cfg == IF IsMCP(chiptype)
                  THEN w1.log \o w2.log \o w3.log
                          \o << Tx("begin", i2cAddr, FALSE, << >>) >>
                  ELSE << >>
           got == IF i2cAddr \in DOMAIN dev THEN 1 ELSE 0
           data == IF i2cAddr \in DOMAIN dev THEN dev[i2cAddr] ELSE 255
       IN  /\ wire' = cfg \o << Tx("begin", i2cAddr, TRUE, << data >>) >>
           /\ lastOut' = IF IsMCP(chiptype) THEN w3.out ELSE lastOut
           /\ _initialised' = (got # 0)
           /\ _shadow' = data
           /\ retVal' = got
    /\ call' = Call("I2CIO::begin", << i2cAddr, chiptype >>)
    /\ UNCHANGED << _dirMask, dev, chip, lcdVars >>

\* I2CIO::pinMode(pin, dir)
I2CIO_pinMode(pin, dir) ==
    /\ _dirMask' = IF ~_initialised THEN _dirMask
                   ELSE IF dir = OUTPUT THEN And(_dirMask, Not8(Shl1(pin)))
                   ELSE Or(_dirMask, Shl1(pin))
    /\ wire' = << >>
    /\ call' = Call("I2CIO::pinMode", << pin, dir >>)
    /\ UNCHANGED << _i2cAddr, _shadow, _initialised, _chipType, lastOut, retVal,
                    dev, chip, lcdVars >>

\* I2CIO::portMode(dir)
I2CIO_portMode(dir) ==
    /\ _dirMask' = IF ~_initialised THEN _dirMask
                   ELSE IF dir = INPUT THEN 255
                   ELSE 0
    /\ wire' = << >>
    /\ call' = Call("I2CIO::portMode", << dir >>)
    /\ UNCHANGED << _i2cAddr, _shadow, _initialised, _chipType, lastOut, retVal,
                    dev, chip, lcdVars >>

\* I2CIO::read(cmd)
I2CIO_read(cmd) ==
    /\ retVal' = read(cmd).ret
    /\ wire' = read(cmd).log
    /\ call' = Call("I2CIO::read", << cmd >>)
    /\ UNCHANGED << _i2cAddr, _dirMask, _shadow, _initialised, _chipType,
                    lastOut, dev, chip, lcdVars >>

\* I2CIO::write(cmd, value)
I2CIO_write(cmd, value) ==
    /\ LET w == write(_i2cAddr, _chipType, cmd, value, _shadow)
       IN  /\ _shadow' = w.shadow
           /\ lastOut' = w.out
           /\ retVal' = w.ret
           /\ wire' = w.log
    /\ call' = Call("I2CIO::write", << cmd, value >>)
    /\ UNCHANGED << _i2cAddr, _chipType, _dirMask, _initialised, dev, chip, lcdVars >>

\* I2CIO::digitalRead(pin)
I2CIO_digitalRead(pin) ==
    /\ IF _initialised /\ pin <= 7
       THEN /\ retVal' = Bit(And(read(MCP23008_GPIO).ret, _dirMask), pin)
            /\ wire' = read(MCP23008_GPIO).log
       ELSE /\ retVal' = 0
            /\ wire' = << >>
    /\ call' = Call("I2CIO::digitalRead", << pin >>)
    /\ UNCHANGED << _i2cAddr, _dirMask, _shadow, _initialised, _chipType,
                    lastOut, dev, chip, lcdVars >>

\* I2CIO::digitalWrite(pin, level)
I2CIO_digitalWrite(pin, level) ==
    /\ IF _initialised /\ pin <= 7
       THEN LET writeVal == And(Shl1(pin), Not8(_dirMask))
                sh == IF level = HIGH THEN Or(_shadow, writeVal)
                      ELSE And(_shadow, Not8(writeVal))
                w == write(_i2cAddr, _chipType, MCP23008_GPIO, sh, sh)
            IN  /\ _shadow' = w.shadow
                /\ lastOut' = w.out
                /\ retVal' = w.ret
                /\ wire' = w.log
       ELSE /\ retVal' = 0
            /\ wire' = << >>
            /\ UNCHANGED << _shadow, lastOut >>
    /\ call' = Call("I2CIO::digitalWrite", << pin, level >>)
    /\ UNCHANGED << _i2cAddr, _chipType, _dirMask, _initialised, dev, chip, lcdVars >>

-----------------------------------------------------------------------------
(* Identification run against a chip *)

\* _iicType = IdentifyIOexp(_Addr), run against the chip: the two writes
\* reach the chip, and the read is answered from the state they leave
Identify ==
    /\ UNCHANGED << _Addr, _backlightPinMask, _backlightStsMask, _polarity,
                    pinVars, status, phase, sent, ioVars >>
    /\ LET writes == SelectSeq(IdentifyIOexp(_Addr).log, LAMBDA t : ~t.rd)
           c == ChipApply(chip, writes)
       IN  /\ dev' = (_Addr :> ChipRead(c))
           /\ chip' = ChipAfterRead(c)
    /\ wire' = (IdentifyIOexp(_Addr).log)'
    /\ _iicType' = (IdentifyIOexp(_Addr).chiptype)'
    /\ call' = Call("IdentifyIOexp", << _Addr >>)

-----------------------------------------------------------------------------
(* The driver's life on a bus with several devices *)

\* at most this many devices acknowledge on the bus
MaxDevices == 2

\* addresses devices may sit at: both ends of the scan, the middle, and a
\* pair k, k+5
DevAddrs == { 0, 32, 37, 64, 127 }

\* bytes a device may answer the identification read with
RespBytes == { 0, 255, 127 }

\* addresses given to the constructor
CtorAddrs == { IIC_ADDR_UNKNOWN, 32, 37 }

\* bytes sent: '\r', '\n', function set 0x28, and 0xA5
SendValues == { CR, LF, 40, 165 }

\* setBacklight levels: BACKLIGHT_OFF, 1, BACKLIGHT_ON
Levels == { 0, 1, 255 }

Buses ==
    UNION { [S -> RespBytes] :
            S \in { T \in SUBSET DevAddrs : Cardinality(T) <= MaxDevices } }

\* the pin numbers not used by en, rw, rs, d4..d7 of this object
UnusedPins ==
    { p \in 0..7 : Shl1(p) \notin { _En, _Rw, _Rs, _data_pins[1], _data_pins[2],
                                    _data_pins[3], _data_pins[4] } }

\* The header requires begin() before any other method of the class; only
\* setBacklightPin(), which the constructors call, runs earlier.
Init ==
    /\ chip = NoChip
    /\ dev \in Buses
    /\ I2CIO(0)
    /\ \E a \in CtorAddrs, t \in ChipTypes :
          \/ Constructed(a, t, IIC_BOARD_EXTRAIO, << >>)
          \/ Constructed(a, t, IIC_BOARD_EXTRAIO, IIC_BOARD_EXTRAIOnBL_bl)

Next ==
    \/ Ready /\ Begin
    \/ Ready /\ phase = "begun" /\ \E v \in SendValues, m \in Modes : Send(v, m)
    \/ Ready /\ phase = "begun" /\ \E v \in Levels : SetBacklight(v)
    \/ Ready /\ \E p \in UnusedPins, pol \in Polarities : SetBacklightPin(p, pol)
    \/ Return

Spec == Init /\ [][Next]_vars

-----------------------------------------------------------------------------
(* Identification of one device, for every byte it may answer *)

\* the address of the device
IdentAddr == 39

InitIdent ==
    /\ chip = NoChip
    /\ I2CIO(0)
    /\ \E b \in Byte : dev = (IdentAddr :> b)
    /\ \E a \in { IdentAddr, IIC_ADDR_UNKNOWN } :
          Constructed(a, IIC_UNKNOWN, IIC_BOARD_EXTRAIO, << >>)

NextIdent ==
    \/ Ready /\ Begin
    \/ Ready /\ phase = "begun" /\ \E v \in SendValues, m \in Modes : Send(v, m)
    \/ Return

SpecIdent == InitIdent /\ [][NextIdent]_vars

-----------------------------------------------------------------------------
(* send() and the backlight on an object with a known address, for every    *)
(* byte and every wiring of a canned board moved to every pin position     *)

Wirings == { Rotate(w, k) : w \in BoardWirings, k \in 0..7 }

InitPins ==
    /\ chip = NoChip
    /\ dev = (IdentAddr :> 0)
    /\ I2CIO(0)
    /\ \E t \in ChipTypes, w \in Wirings :
          \/ Constructed(IdentAddr, t, w, << >>)
          \/ \E p \in FreePins(w), pol \in Polarities :
                Constructed(IdentAddr, t, w, << p, pol >>)

NextPins ==
    \/ Ready /\ \E v \in Byte, m \in Modes : Send(v, m)
    \/ Ready /\ \E v \in Levels : SetBacklight(v)
    \/ Ready /\ \E p \in UnusedPins, pol \in Polarities : SetBacklightPin(p, pol)
    \/ Return

SpecPins == InitPins /\ [][NextPins]_vars

-----------------------------------------------------------------------------
(* An I2CIO handle and one device, driven through every method *)

\* bytes the device answers a read with
IOBytes == { 0, 90, 165, 255 }

\* addresses given to begin(): that of the device, and one nothing answers at
IOAddrs == { IdentAddr, 32 }

\* chip types given to begin(): the MCP23008 and another
IOChipTypes == { 0, 1 }

\* pins given to the pin methods; 8 is out of range
IOPins == { 0, 3, 7, 8 }

\* register numbers given to read() and write()
IOCmds == { MCP23008_GPIO, MCP_OLAT }

\* bytes given to write()
IOValues == { 0, 1, 15, 90, 165, 255 }

InitIO ==
    /\ chip = NoChip
    /\ \E b \in IOBytes : dev = (IdentAddr :> b)
    /\ \E c \in IOChipTypes : I2CIO(c)
    /\ Constructed(IIC_ADDR_UNKNOWN, IIC_UNKNOWN, IIC_BOARD_EXTRAIO, << >>)

NextIO ==
    \/ Ready /\ \E a \in IOAddrs, c \in IOChipTypes : I2CIO_begin(a, c)
    \/ Ready /\ \E p \in IOPins, d \in { INPUT, OUTPUT } : I2CIO_pinMode(p, d)
    \/ Ready /\ \E d \in { INPUT, OUTPUT } : I2CIO_portMode(d)
    \/ Ready /\ \E c \in IOCmds : I2CIO_read(c)
    \/ Ready /\ \E c \in IOCmds, v \in IOValues : I2CIO_write(c, v)
    \/ Ready /\ \E p \in IOPins : I2CIO_digitalRead(p)
    \/ Ready /\ \E p \in IOPins, l \in { LOW, HIGH } : I2CIO_digitalWrite(p, l)
    \/ Return

SpecIO == InitIO /\ [][NextIO]_vars

-----------------------------------------------------------------------------
(* Identification of a chip, whatever state the chip is in *)

\* bytes the registers of the MCP23008 may hold at the start
ChipBytes == { 0, 32, 90, 255 }

\* the chips at the start: a PCF8574 with any port value, an MCP23008 with
\* any register pointer, in sequential or in byte mode, with the bytes
\* above in IODIR and in OLAT
Chips ==
    { PCF8574(p) : p \in Byte }
        \cup { MCP23008(ptr, [ r \in 0..MCP_OLAT |->
                                  IF r = MCP_IODIR THEN d
                                  ELSE IF r = MCP_IOCON THEN m
                                  ELSE IF r = MCP_OLAT THEN o
                                  ELSE 0 ]) :
                 ptr \in 0..MCP_OLAT, d \in ChipBytes, m \in { 0, IOCON_BYTE_MODE },
                 o \in ChipBytes }

InitChip ==
    /\ chip \in Chips
    /\ dev = (IdentAddr :> ChipRead(chip))
    /\ I2CIO(0)
    /\ Constructed(IdentAddr, IIC_UNKNOWN, IIC_BOARD_EXTRAIO, << >>)

NextChip ==
    \/ Ready /\ Identify
    \/ Return

SpecChip == InitChip /\ [][NextChip]_vars

-----------------------------------------------------------------------------
(* The driver with the expander chip of the board behind it *)

\* the chips at the start: a PCF8574 with its port all high (power-on) or
\* all low, an MCP23008 with the pointer at IODIR or at OLAT, all pins
\* inputs or outputs, in sequential or in byte mode
BoardChips ==
    { c \in Chips :
        \/ c.kind = "PCF8574" /\ c.port \in { 0, 255 }
        \/ /\ c.kind = "MCP23008"
           /\ c.ptr \in { MCP_IODIR, MCP_OLAT }
           /\ c.regs[MCP_IODIR] \in { 0, 255 }
           /\ c.regs[MCP_OLAT] \in { 0, 90 } }

\* the chip type of a chip
TypeOf(c) == IF c.kind = "PCF8574" THEN IIC_PCF8574 ELSE IIC_MCP23008

\* the byte the chip answers the identification read with, after the two
\* writes of the probe; the driver reads nowhere else
ProbeAnswer(c) ==
    ChipRead(ChipWrite(ChipWrite(c, << 0, 255 >>, TRUE), << 0 >>, TRUE))

\* the chip sits at IdentAddr; the object is constructed with that address
\* or to locate it, with the chip's type or to detect it
InitBoard ==
    /\ chip \in BoardChips
    /\ dev = (IdentAddr :> ProbeAnswer(chip))
    /\ I2CIO(0)
    /\ \E a \in { IdentAddr, IIC_ADDR_UNKNOWN }, t \in { IIC_UNKNOWN, TypeOf(chip) },
          w \in Wirings :
          \/ Constructed(a, t, w, << >>)
          \/ \E p \in FreePins(w), pol \in Polarities :
                Constructed(a, t, w, << p, pol >>)

NextBoard ==
    \/ Ready /\ Begin
    \/ Ready /\ phase = "begun" /\ \E v \in SendValues, m \in Modes : Send(v, m)
    \/ Ready /\ phase = "begun" /\ \E v \in Levels : SetBacklight(v)
    \/ Return

SpecBoard == InitBoard /\ [][NextBoard]_vars

-----------------------------------------------------------------------------
(* The backlight pin set again while the driver runs *)

\* setBacklightPin() takes any pin number of the port
BacklightPins == 0..7

InitBacklight ==
    /\ chip = NoChip
    /\ dev = (IdentAddr :> 0)
    /\ I2CIO(0)
    /\ \E t \in { IIC_PCF8574, IIC_MCP23008 } :
          \/ Constructed(IdentAddr, t, IIC_BOARD_EXTRAIO, << >>)
          \/ Constructed(IdentAddr, t, IIC_BOARD_EXTRAIO, IIC_BOARD_EXTRAIOnBL_bl)

NextBacklight ==
    \/ Ready /\ Begin
    \/ Ready /\ phase = "begun" /\ \E v \in SendValues, m \in Modes : Send(v, m)
    \/ Ready /\ phase = "begun" /\ \E v \in Levels : SetBacklight(v)
    \/ Ready /\ \E p \in BacklightPins, pol \in Polarities : SetBacklightPin(p, pol)
    \/ Return

SpecBacklight == InitBacklight /\ [][NextBacklight]_vars

-----------------------------------------------------------------------------
(* Properties *)

\* what the last call was
Called(name) == call.name = name
SendValue == call.args[1]
SendMode == call.args[2]

\* the addresses that acknowledge and answer the identification read with
\* 0x00 or 0xFF
Identified == { a \in 0..LastAddress : a \in DOMAIN dev /\ dev[a] \in { 0, 255 } }

\* C1 (SpecIdent): when begin identifies the chip (none was given), the
\* chip type is MCP23008 exactly if the byte b read back is 0xFF, PCF8574
\* exactly if b is 0x00, and Unknown for every other b; the byte on the bus
\* is b.  A scan identifies the same device twice (in LocateDevice, then in
\* init) and a failed begin may be repeated: each time the result is the
\* one b fixes.
C1_IdentifyByByte ==
    (Called("begin") /\ call.type0 = IIC_UNKNOWN) =>
        LET b == dev[IdentAddr]
        IN  /\ (_iicType = IIC_MCP23008) <=> (b = 255)
            /\ (_iicType = IIC_PCF8574) <=> (b = 0)
            /\ (b \notin { 0, 255 }) => (_iicType = IIC_UNKNOWN)
            /\ call.addr0 = IIC_ADDR_UNKNOWN =>
                  ((_Addr = IdentAddr) <=> (b \in { 0, 255 }))
            /\ \A i \in DOMAIN wire :
                  wire[i].rd => wire[i].addr = IdentAddr /\ wire[i].bytes = << b >>
            /\ \E i \in DOMAIN wire : wire[i].rd

\* C1: the device answered 0x80 and begin left the chip type Unknown
C1_Witness ==
    /\ Called("begin")
    /\ call.type0 = IIC_UNKNOWN
    /\ call.addr0 = IdentAddr
    /\ dev[IdentAddr] = 128
    /\ _iicType = IIC_UNKNOWN

\* C2: after a begin that had to locate the device, the address is the
\* smallest one in 0..127 that acknowledges and is identified, and the
\* unresolved sentinel 0xFF if there is none; an acknowledging device
\* that is not identified does not end the scan.
C2_LocateSmallest ==
    (Called("begin") /\ call.addr0 = IIC_ADDR_UNKNOWN) =>
        IF Identified = { }
        THEN _Addr = IIC_ADDR_UNKNOWN
        ELSE _Addr \in Identified /\ \A a \in Identified : _Addr <= a

\* C2: an unidentifiable device at k = 32, an identified one at k + 5
C2_Witness ==
    /\ Called("begin")
    /\ call.addr0 = IIC_ADDR_UNKNOWN
    /\ DOMAIN dev = { 32, 37 }
    /\ dev[32] = 127
    /\ dev[37] = 0
    /\ _Addr = 37

\* C3: with the address still unresolved after begin, send issues no bus
\* transaction, whatever the value and the mode.
C3_UnresolvedSendSilent ==
    (phase = "begun" /\ _Addr = IIC_ADDR_UNKNOWN /\ Called("send")) => wire = << >>

\* C3: a command sent to an object whose begin found no device
C3_Witness ==
    /\ phase = "begun"
    /\ _Addr = IIC_ADDR_UNKNOWN
    /\ Called("send")
    /\ call.args = << 40, COMMAND >>
    /\ wire = << >>

\* C4: with a known address and the chip type still Unknown after begin,
\* send issues no bus transaction.
C4_UnknownChipSendSilent ==
    (/\ phase = "begun"
     /\ _Addr # IIC_ADDR_UNKNOWN
     /\ _iicType = IIC_UNKNOWN
     /\ Called("send")) => wire = << >>

\* the transactions of the last call that init() issued, itself or through
\* LocateDevice and IdentifyIOexp
InitLog ==
    SelectSeq(wire, LAMBDA t : t.by \in { "LocateDevice", "IdentifyIOexp", "init" })

\* C5: when begin leaves the address unresolved or the chip type Unknown,
\* init has returned a non-zero status and has written no expander
\* configuration: nothing of init follows the scan and the identification
\* read.
C5_FailedInitNoConfig ==
    (Called("begin") /\ (_Addr = IIC_ADDR_UNKNOWN \/ _iicType = IIC_UNKNOWN)) =>
        /\ status # 0
        /\ \A i \in DOMAIN wire : wire[i].by # "init"
        /\ InitLog # << >> =>
              (InitLog[Len(InitLog)].rd \/ InitLog[Len(InitLog)].bytes = << >>)

\* C5: begin with a known address could not identify the chip
C5_Witness ==
    /\ Called("begin")
    /\ call.addr0 # IIC_ADDR_UNKNOWN
    /\ _iicType = IIC_UNKNOWN
    /\ status = -1
    /\ Len(InitLog) = 3

\* the bit positions set in the byte b
BitsOf(b) == { i \in 0..7 : Bit(b, i) = 1 }

\* the bytes of a transaction that reach the output port: on an MCP23008
\* the first byte of a write is the register pointer
PortBytes(tx) == IF _iicType = IIC_MCP23008 THEN Tail(tx.bytes) ELSE tx.bytes

\* the nibble the data lines d4..d7 carry when the port holds b
DataNibble(b) ==
    LET n(i) == IF And(b, _data_pins[i + 1]) # 0 THEN 2^i ELSE 0
    IN  n(0) + n(1) + n(2) + n(3)

\* the two writes of an enable pulse: the same byte, enable high then low
IsPulse(hi, lo) == And(hi, _En) = _En /\ And(lo, _En) = 0 /\ hi = lo + _En

\* the last call sent a full byte: Command or Data mode, no tossed CR/LF
SentByte ==
    /\ Called("send")
    /\ SendMode \in { COMMAND, DATA }
    /\ ~(SendMode = DATA /\ SendValue \in { CR, LF })

\* C6 (SpecPins): send of '\r' or '\n' in Data mode issues no bus
\* transaction, for every chip type, wiring and backlight state; in
\* Command mode the same values go out as a two-nibble write.
C6_CrLfDropped ==
    (Called("send") /\ SendValue \in { CR, LF }) =>
        /\ SendMode = DATA => wire = << >>
        /\ SendMode = COMMAND =>
              /\ Len(wire) = 1
              /\ Len(PortBytes(wire[1])) = 4
              /\ DataNibble(PortBytes(wire[1])[1]) = 0
              /\ DataNibble(PortBytes(wire[1])[3]) = SendValue

\* C6: '\r' in Data mode on an MCP23008 with the backlight bit on
C6_Witness ==
    /\ Called("send")
    /\ call.args = << CR, DATA >>
    /\ _iicType = IIC_MCP23008
    /\ _backlightStsMask # 0
    /\ wire = << >>

\* C7 (SpecPins): send of a byte in Command or Data mode is one write
\* transaction to the expander with exactly 4 port bytes: the high nibble
\* with enable high, then low, the low nibble with enable high, then low,
\* the bytes of a pair differing in the enable bit only.  With en=6, rw=5,
\* rs=4, d4..d7=0..3, a PCF8574 and no backlight, command 0x28 is written
\* as 0x42, 0x02, 0x48, 0x08.
C7_TwoNibblePulses ==
    SentByte =>
        /\ Len(wire) = 1
        /\ wire[1].addr = _Addr
        /\ ~wire[1].rd
        /\ LET p == PortBytes(wire[1])
           IN  /\ Len(p) = 4
               /\ IsPulse(p[1], p[2])
               /\ IsPulse(p[3], p[4])
               /\ DataNibble(p[1]) = SendValue \div 16
               /\ DataNibble(p[3]) = SendValue % 16
               /\ (/\ _En = 64
                   /\ _Rs = 16
                   /\ _data_pins = << 1, 2, 4, 8 >>
                   /\ _iicType = IIC_PCF8574
                   /\ _backlightStsMask = 0
                   /\ call.args = << 40, COMMAND >>) => p = << 66, 2, 72, 8 >>

\* C7: command 0x28 on the ElectroFun wiring, PCF8574, no backlight
C7_Witness ==
    /\ Called("send")
    /\ call.args = << 40, COMMAND >>
    /\ _En = 64
    /\ _Rw = 32
    /\ _Rs = 16
    /\ _data_pins = << 1, 2, 4, 8 >>
    /\ _iicType = IIC_PCF8574
    /\ _backlightPinMask = 0
    /\ wire[1].bytes = << 66, 2, 72, 8 >>

\* the bits a port byte may use: enable, register select, the data lines
\* and the backlight pin now configured
AllowedBits ==
    BitsOf(_En) \cup BitsOf(_Rs) \cup BitsOf(_backlightPinMask)
        \cup UNION { BitsOf(_data_pins[i]) : i \in 1..4 }

\* C8 as stated (SpecPins): every byte send writes, the MCP23008 register
\* pointer included, has no bit outside enable, register select, the data
\* lines and the configured backlight bit.
C8_EveryByteInPinMap ==
    Called("send") =>
        \A i \in DOMAIN wire : \A j \in DOMAIN wire[i].bytes :
            BitsOf(wire[i].bytes[j]) \subseteq AllowedBits

\* C8 amended (SpecPins): every byte send writes to the output port, that
\* is every byte but the OLAT pointer 0x0A that opens an MCP23008
\* transaction, has no bit outside enable, register select, the data lines
\* and the configured backlight bit.
C8_PortBytesInPinMap ==
    Called("send") =>
        \A i \in DOMAIN wire : \A j \in DOMAIN PortBytes(wire[i]) :
            BitsOf(PortBytes(wire[i])[j]) \subseteq AllowedBits

\* C8: 0xFF sent as data with the backlight bit on: every allowed bit is
\* set in the first byte, and no other
C8_Witness ==
    /\ Called("send")
    /\ call.args = << 255, DATA >>
    /\ _backlightStsMask # 0
    /\ BitsOf(PortBytes(wire[1])[1]) = AllowedBits

\* the port byte write4bits renders for nibble n: the data masks of the
\* bits set in n, register select in Data mode, the backlight status mask
Rendered(n, mode) ==
    UNION { BitsOf(_data_pins[i + 1]) : i \in BitsOf(n) }
        \cup (IF mode = DATA THEN BitsOf(_Rs) ELSE { })
        \cup BitsOf(_backlightStsMask)

\* C9 (SpecPins): the byte write4bits hands to the enable pulse is the OR
\* of dataBits[i] for the bits i set in the nibble, of register select
\* exactly in Data mode, and of the backlight status mask; the byte for
\* the second nibble of a send holds nothing of the first.  On the canned
\* wirings nibble 0b1010 in Data mode with mask 0 gives
\* dataBits[1] | dataBits[3] | registerSelectBit.
C9_RenderedNibble ==
    /\ SentByte =>
          LET p == PortBytes(wire[1])
          IN  /\ BitsOf(p[2]) = Rendered(SendValue \div 16, SendMode)
              /\ BitsOf(p[4]) = Rendered(SendValue % 16, SendMode)
              /\ (SendMode = DATA /\ SendValue % 16 = 10 /\ _backlightStsMask = 0)
                    => p[4] = _data_pins[2] + _data_pins[4] + _Rs
    /\ (Called("send") /\ SendMode = FOUR_BITS) =>
          BitsOf(PortBytes(wire[1])[2]) = Rendered(SendValue % 16, COMMAND)

\* C9: 0xFA as data on the Adafruit wiring (rs=1, d4..d7=3..6), mask 0:
\* the second nibble 0b1010 is rendered as 16 + 64 + 2
C9_Witness ==
    /\ Called("send")
    /\ call.args = << 250, DATA >>
    /\ _En = 4
    /\ _Rs = 2
    /\ _data_pins = << 8, 16, 32, 64 >>
    /\ _backlightStsMask = 0
    /\ PortBytes(wire[1])[4] = 82

\* C10: on an MCP23008 every transaction of send and of setBacklight, and
\* the last configuration transaction of init, starts with the OLAT
\* pointer 0x0A, followed by the port bytes; on a PCF8574 the transactions
\* hold the port bytes only.
C10_OlatPointerFirst ==
    LET n == IF _iicType = IIC_MCP23008 THEN 1 ELSE 0
    IN  _iicType \in { IIC_MCP23008, IIC_PCF8574 } =>
          /\ \A i \in DOMAIN wire :
                LET b == wire[i].bytes
                IN  /\ wire[i].by \in { "send", "setBacklight" } =>
                          /\ n = 1 => b[1] = MCP_OLAT
                          /\ n = 0 => b[1] # MCP_OLAT \/ Len(b) = 1
                    /\ wire[i].by = "send" =>
                          /\ Len(b) \in { n + 2, n + 4 }
                          /\ Called("send") =>
                                Len(b) = n + (IF SendMode = FOUR_BITS THEN 2 ELSE 4)
                          /\ IsPulse(b[n + 1], b[n + 2])
                    /\ wire[i].by = "setBacklight" =>
                          b = (IF n = 1 THEN << MCP_OLAT >> ELSE << >>)
                                  \o << _backlightStsMask >>
          /\ (Called("begin") /\ _Addr # IIC_ADDR_UNKNOWN) =>
                InitLog[Len(InitLog)].bytes =
                    (IF n = 1 THEN << MCP_OLAT >> ELSE << >>) \o << 0 >>

\* C10: setBacklight on an MCP23008 wrote the pointer, then the mask
C10_Witness ==
    /\ _iicType = IIC_MCP23008
    /\ Called("setBacklight")
    /\ _backlightStsMask = 128
    /\ wire[1].bytes = << MCP_OLAT, 128 >>

\* C11 (SpecPins): after setBacklight(level) with a backlight pin
\* configured, the status mask is the backlight bit when the polarity is
\* Positive and level > 0 or the polarity is Negative and level = 0, and 0
\* otherwise.  The mask is fixed by the level of the last call, the pin and
\* the polarity alone: whatever calls came before, the same one repeated
\* included, do not show in it.
C11_BacklightMask ==
    (Called("setBacklight") /\ _backlightPinMask # 0) =>
        LET level == call.args[1]
        IN  /\ (_polarity = POSITIVE /\ level > 0) => _backlightStsMask = _backlightPinMask
            /\ (_polarity = POSITIVE /\ level = 0) => _backlightStsMask = 0
            /\ (_polarity = NEGATIVE /\ level > 0) => _backlightStsMask = 0
            /\ (_polarity = NEGATIVE /\ level = 0) => _backlightStsMask = _backlightPinMask
            /\ wire[1].bytes[Len(wire[1].bytes)] = _backlightStsMask

\* C11: Negative polarity, backlight requested on: the mask is 0
C11_Witness ==
    /\ Called("setBacklight")
    /\ _backlightPinMask # 0
    /\ _polarity = NEGATIVE
    /\ call.args = << 255 >>
    /\ _backlightStsMask = 0

\* C12: a call of setBacklightPin records the pin mask and the polarity,
\* issues no bus transaction, and leaves the address, the chip type and
\* the enable, rw, rs and data masks as they were, before begin and after.
C12_SetBacklightPinFrame ==
    [][call'.name = "setBacklightPin" =>
          /\ wire' = << >>
          /\ _backlightPinMask' = Shl1(call'.args[1])
          /\ _polarity' = call'.args[2]
          /\ UNCHANGED << _Addr, _iicType, pinVars >>]_vars

\* C12: setBacklightPin called after begin resolved the address
C12_Witness ==
    /\ Called("setBacklightPin")
    /\ phase = "begun"
    /\ _Addr # IIC_ADDR_UNKNOWN
    /\ call.args = << 7, POSITIVE >>
    /\ _backlightPinMask = 128
    /\ wire = << >>

\* the places in the log of the last call of the transactions issued by
\* one of the methods named
Places(names) == { i \in DOMAIN wire : wire[i].by \in names }

\* the places of the configuration write that sets the output port to 0x00
PortCleared ==
    { i \in Places({ "init" }) :
          wire[i].bytes \in { << 0 >>, << MCP_OLAT, 0 >> } }

\* C13: in the log of every begin the scan probes come before the
\* identification of the resolved address, that before the configuration
\* writes, and every transaction of send comes after the configuration
\* write that sets the output port to 0x00.
C13_ConfigBeforeSend ==
    Called("begin") =>
        /\ \A i \in Places({ "LocateDevice" }), j \in Places({ "init" }) : i < j
        /\ \A i \in Places({ "IdentifyIOexp" }), j \in Places({ "init" }) : i < j
        /\ \A i \in Places({ "LocateDevice", "IdentifyIOexp", "init" }),
              j \in Places({ "send" }) : i < j
        /\ \A j \in Places({ "send" }) : \E i \in PortCleared : i < j

\* C14: once send has put a transaction on the bus, no later call issues
\* a scan probe or the identification sequence.
C14_NoProbeAfterSend ==
    [][sent => \A i \in DOMAIN wire' :
                  wire'[i].by \notin { "LocateDevice", "IdentifyIOexp" }]_vars

\* C15 (SpecIO): on an initialised handle write(cmd, value) leaves the
\* output shadow at value & ~directionMask and issues one transaction whose
\* last byte is that shadow; the register number cmd goes ahead of it when
\* the chip is an MCP23008, and nothing does otherwise.
C15_WriteMasked ==
    (Called("I2CIO::write") /\ _initialised) =>
        LET cmd == call.args[1]
            value == call.args[2]
            masked == { i \in BitsOf(value) : i \notin BitsOf(_dirMask) }
        IN  /\ BitsOf(_shadow) = masked
            /\ Len(wire) = 1
            /\ wire[1].addr = _i2cAddr
            /\ ~wire[1].rd
            /\ wire[1].bytes = (IF IsMCP(_chipType) THEN << cmd >> ELSE << >>)
                                    \o << _shadow >>

\* C15: 0xA5 written to an MCP23008 whose pins 0 and 7 are inputs
C15_Witness ==
    /\ Called("I2CIO::write")
    /\ _initialised
    /\ IsMCP(_chipType)
    /\ _dirMask = 129
    /\ call.args = << MCP23008_GPIO, 165 >>
    /\ wire[1].bytes = << MCP23008_GPIO, 36 >>

\* C16 (SpecIO): write returns success exactly if it issued a bus
\* transaction and the transport reported success for it.
C16_WriteStatus ==
    Called("I2CIO::write") =>
        ((retVal # 0) <=> (wire # << >> /\ EndTransmission(_i2cAddr) = 0))

\* C17 (SpecIO): in every state the output shadow is the last byte
\* write() transmitted to the device and has no bit set where the
\* direction mask marks an input.
C17_ShadowIsLastOutput ==
    /\ lastOut # -1 => _shadow = lastOut
    /\ And(_shadow, _dirMask) = 0

\* C18 (SpecIO): read on an initialised handle returns the byte received
\* from the device as it is; the read is preceded by a write of the
\* register number exactly when the chip is an MCP23008.
C18_ReadRaw ==
    (Called("I2CIO::read") /\ _initialised) =>
        /\ retVal = dev[_i2cAddr]
        /\ wire[Len(wire)].rd
        /\ wire[Len(wire)].bytes = << dev[_i2cAddr] >>
        /\ IF IsMCP(_chipType)
           THEN Len(wire) = 2 /\ ~wire[1].rd /\ wire[1].bytes = << call.args[1] >>
           ELSE Len(wire) = 1

\* C19 (SpecChip): IdentifyIOexp issues the transactions [0x00, 0xFF],
\* [0x00] and a one-byte read, in that order.  Against a PCF8574 it
\* returns PCF8574 and leaves the port at 0x00; against an MCP23008 it
\* returns MCP23008 and leaves IODIR at 0xFF; whatever the port, the
\* register pointer, IODIR and the mode of the chip were before.
C19_IdentifyChip ==
    Called("IdentifyIOexp") =>
        /\ Len(wire) = 3
        /\ \A i \in 1..3 : wire[i].addr = _Addr
        /\ ~wire[1].rd /\ wire[1].bytes = << 0, 255 >>
        /\ ~wire[2].rd /\ wire[2].bytes = << 0 >>
        /\ wire[3].rd /\ Len(wire[3].bytes) = 1
        /\ chip.kind = "PCF8574" => _iicType = IIC_PCF8574 /\ chip.port = 0
        /\ chip.kind = "MCP23008" =>
              _iicType = IIC_MCP23008 /\ chip.regs[MCP_IODIR] = 255

\* C19: an MCP23008 identified; it was in sequential mode, so the read
\* has moved its pointer on to register 1
C19_Witness ==
    /\ Called("IdentifyIOexp")
    /\ chip.kind = "MCP23008"
    /\ chip.regs[MCP_IOCON] = 0
    /\ chip.ptr = 1
    /\ chip.regs[MCP_IODIR] = 255
    /\ _iicType = IIC_MCP23008

\* the transactions of the last call that LocateDevice issued, itself or
\* through IdentifyIOexp; init() identifies the address found once more
ScanLog ==
    SelectSeq(wire, LAMBDA t : t.by \in { "LocateDevice", "IdentifyIOexp" })

\* C20: the scan of a begin that had to locate the device is finite: it
\* probes addresses of 0..127 in ascending order, each at most once and
\* with none left out below the last; the identification sequence goes
\* only to an address that has just acknowledged its probe; nothing is
\* sent to an address above the one returned, and a scan that returns the
\* unresolved sentinel has probed all 128 addresses.
C20_ScanBounded ==
    (Called("begin") /\ call.addr0 = IIC_ADDR_UNKNOWN) =>
        LET probes == SelectSeq(wire, LAMBDA t : t.by = "LocateDevice")
        IN  /\ \A i \in DOMAIN probes :
                  probes[i].addr = i - 1 /\ probes[i].bytes = << >>
            /\ Len(probes) <= LastAddress + 1
            /\ \A i \in DOMAIN ScanLog :
                  ScanLog[i].by = "IdentifyIOexp" =>
                      /\ ScanLog[i].addr \in DOMAIN dev
                      /\ i > 1
                      /\ ScanLog[i - 1].addr = ScanLog[i].addr
            /\ _Addr # IIC_ADDR_UNKNOWN =>
                  /\ \A i \in DOMAIN ScanLog : ScanLog[i].addr <= _Addr
                  /\ Len(probes) = _Addr + 1
            /\ _Addr = IIC_ADDR_UNKNOWN => Len(probes) = LastAddress + 1

\* C20: devices at 64 and 127, both identifiable: the scan returns 64
\* after 65 probes and never addresses 127
C20_Witness ==
    /\ Called("begin")
    /\ call.addr0 = IIC_ADDR_UNKNOWN
    /\ DOMAIN dev = { 64, 127 }
    /\ dev[64] = 255
    /\ dev[127] = 0
    /\ _Addr = 64
    /\ Len(SelectSeq(wire, LAMBDA t : t.by = "LocateDevice")) = 65
    /\ \A i \in DOMAIN wire : wire[i].addr # 127

\* C21 (SpecPins): send(v, FOUR_BITS) on an object with a resolved address
\* issues one transaction with one enable pulse, two port bytes, that
\* carries the low nibble of v with register select low; the bytes are
\* those rendered for v mod 16 as a command, so the high nibble of v does
\* not show in them.
C21_FourBitsOneNibble ==
    (Called("send") /\ SendMode = FOUR_BITS /\ _Addr # IIC_ADDR_UNKNOWN) =>
        /\ Len(wire) = 1
        /\ ~wire[1].rd
        /\ LET p == PortBytes(wire[1])
           IN  /\ Len(p) = 2
               /\ IsPulse(p[1], p[2])
               /\ DataNibble(p[1]) = SendValue % 16
               /\ And(p[1], _Rs) = 0
               /\ And(p[2], _Rs) = 0
               /\ BitsOf(p[2]) = Rendered(SendValue % 16, COMMAND)

\* C21: 0xF3 through the 4-bit path: the data lines carry 3
C21_Witness ==
    /\ Called("send")
    /\ call.args = << 243, FOUR_BITS >>
    /\ _iicType = IIC_MCP23008
    /\ Len(wire[1].bytes) = 3
    /\ DataNibble(wire[1].bytes[2]) = 3

\* C22 (SpecPins): every send leaves the backlight status mask as it
\* was, and every port byte it writes, both bytes of every enable pulse in
\* every mode, carries that mask: the bits of the mask are set and the
\* backlight bit is clear when the mask is 0.
C22_BacklightPersists ==
    [][call'.name = "send" =>
          /\ _backlightStsMask' = _backlightStsMask
          /\ \A i \in DOMAIN wire' :
                LET b == wire'[i].bytes
                    n == IF _iicType = IIC_MCP23008 THEN 1 ELSE 0
                IN  \A j \in (n + 1)..Len(b) :
                        /\ And(b[j], _backlightStsMask) = _backlightStsMask
                        /\ And(b[j], _backlightPinMask)
                              = And(_backlightStsMask, _backlightPinMask)]_vars

\* C22: a command of zeros sent with the backlight bit on: the port
\* bytes are the mask with enable, then the mask alone
C22_Witness ==
    /\ Called("send")
    /\ call.args = << 0, COMMAND >>
    /\ _backlightStsMask # 0
    /\ _backlightStsMask = _backlightPinMask
    /\ PortBytes(wire[1]) = << _backlightStsMask + _En, _backlightStsMask,
                               _backlightStsMask + _En, _backlightStsMask >>

\* the configuration transactions in the log of the last call
ConfigLog == SelectSeq(wire, LAMBDA t : t.by = "init")

\* C23: a begin that ends with the address and the chip type resolved has
\* written this configuration to that address and nothing else of init's:
\* for an MCP23008 the transactions [0x05, 0x20], [0x00, 0x00] and
\* [0x0A, 0x00], in this order, for a PCF8574 the one transaction [0x00].
C23_ConfigWrites ==
    (Called("begin") /\ _Addr # IIC_ADDR_UNKNOWN /\ _iicType # IIC_UNKNOWN) =>
        /\ \A i \in DOMAIN ConfigLog : ConfigLog[i].addr = _Addr /\ ~ConfigLog[i].rd
        /\ _iicType = IIC_MCP23008 =>
              /\ Len(ConfigLog) = 3
              /\ ConfigLog[1].bytes = << 5, 32 >>
              /\ ConfigLog[2].bytes = << 0, 0 >>
              /\ ConfigLog[3].bytes = << 10, 0 >>
        /\ _iicType = IIC_PCF8574 =>
              /\ Len(ConfigLog) = 1
              /\ ConfigLog[1].bytes = << 0 >>

\* C23: an MCP23008 located by the scan, identified and configured
C23_Witness ==
    /\ Called("begin")
    /\ call.addr0 = IIC_ADDR_UNKNOWN
    /\ call.type0 = IIC_UNKNOWN
    /\ _iicType = IIC_MCP23008
    /\ Len(ConfigLog) = 3
    /\ ConfigLog[1].bytes = << MCP_IOCON, IOCON_BYTE_MODE >>

\* the transactions of a log that belong to the search for the device and
\* to its identification, and the others
ProbePart(log) ==
    SelectSeq(log, LAMBDA t : t.by \in { "LocateDevice", "IdentifyIOexp" })
DrivePart(log) ==
    SelectSeq(log, LAMBDA t : t.by \notin { "LocateDevice", "IdentifyIOexp" })

\* what the driver of a PCF8574 with the same pin map and the same state
\* issues, after any probe, for the call c
TwinDrive(c, addr) ==
    IF c.name = "begin"
    THEN ConfigWrites(addr, IIC_PCF8574) \o LCD_beginLog(addr, IIC_PCF8574, 1)
    ELSE IF c.name = "send"
    THEN sendOn(addr, IIC_PCF8574, c.args[1], c.args[2])
    ELSE setBacklightOn(addr, IIC_PCF8574, c.args[1])

\* the bytes of the transactions of a log, the first byte of each, the
\* register pointer, left out
RECURSIVE NonPointerBytes(_)
NonPointerBytes(log) ==
    IF log = << >> THEN << >>
    ELSE Tail(Head(log).bytes) \o NonPointerBytes(Tail(log))

\* no byte of the sequence has a bit of the mask set
NoneHas(bytes, mask) ==
    \A t \in { bytes } : \A i \in DOMAIN t : And(t[i], mask) = 0

\* C24 as stated (SpecBoard): in every begin, send and setBacklight on an
\* MCP23008, the values the output latch takes are the values the port of
\* a PCF8574 takes in the same call with the same pin map, the probe of
\* begin included.
C24_LatchEqualsPort ==
    [][(chip.kind = "MCP23008" /\ call'.name \in { "begin", "send", "setBacklight" }) =>
          LatchTrace(chip, wire')
             = LatchTrace(PCF8574(0),
                          ProbePart(wire') \o TwinDrive(call', _Addr'))]_vars

\* C24 amended (SpecBoard): from the configuration of init on, the values
\* the output latch of an MCP23008 takes are the values the port of a
\* PCF8574 takes in the same call with the same pin map; IODIR is 0 and
\* IOCON is 0x20 after every call, no register other than these two and
\* OLAT changes, and every non-pointer byte of a send or setBacklight
\* transaction is stored in OLAT.  The bytes of the probe are apart: they
\* are written to IODIR of the MCP23008 and to the port of the PCF8574.
C24_LatchEqualsPortAfterProbe ==
    [][(chip.kind = "MCP23008" /\ call'.name \in { "begin", "send", "setBacklight" }) =>
          LET probed == ChipRun(chip, ProbePart(wire'))
              drive == DrivePart(wire')
          IN  /\ LatchTrace(probed, drive)
                    = LatchTrace(PCF8574(0), TwinDrive(call', _Addr'))
              /\ chip'.regs[MCP_IODIR] = 0
              /\ chip'.regs[MCP_IOCON] = IOCON_BYTE_MODE
              /\ \A r \in (0..MCP_OLAT) \ { MCP_IODIR, MCP_IOCON, MCP_OLAT } :
                    chip'.regs[r] = chip.regs[r]
              /\ call'.name # "begin" =>
                    LatchTrace(chip, wire') = NonPointerBytes(wire')]_vars

\* C24: 0xA5 sent as data to an MCP23008 that begin located, identified and
\* configured: OLAT holds the last byte of the transaction
C24_Witness ==
    /\ Called("send")
    /\ call.args = << 165, DATA >>
    /\ chip.kind = "MCP23008"
    /\ _iicType = IIC_MCP23008
    /\ Len(wire) = 1
    /\ Len(wire[1].bytes) = 5
    /\ chip.regs[MCP_OLAT] = wire[1].bytes[5]
    /\ chip.regs[MCP_OLAT] # 0
    /\ chip.regs[MCP_IODIR] = 0
    /\ chip.ptr = MCP_OLAT

\* C26 as stated (SpecBoard): no value the output port or latch takes in
\* any call has the read/write bit set.
C26_RwAlwaysLow ==
    [][NoneHas(LatchTrace(chip, wire'), _Rw)]_vars

\* C26 amended (SpecBoard): no value that the configuration of init, a
\* send or a setBacklight gives the output port or latch has the
\* read/write bit set.  The probe that looks for the device or identifies
\* it is apart: it writes 0x00, 0xFF, 0x00 to the port of a PCF8574.
C26_RwLowOutsideProbe ==
    [][NoneHas(LatchTrace(ChipRun(chip, ProbePart(wire')), DrivePart(wire')),
               _Rw)]_vars

\* C26: a begin that identified a PCF8574: the probe wrote 0xFF to the
\* port, the configuration and the commands that followed left the
\* read/write bit low with the backlight bit high
C26_Witness ==
    /\ Called("begin")
    /\ chip.kind = "PCF8574"
    /\ \E i \in DOMAIN wire :
          wire[i].by = "IdentifyIOexp" /\ wire[i].bytes = << 0, 255 >>
    /\ _backlightStsMask # 0
    /\ chip.port = _backlightStsMask
    /\ And(chip.port, _Rw) = 0

\* C25 (SpecIO): every I2CIO::begin for an MCP23008, the first one
\* included, transmits the register writes IOCON = 0x20, IODIR = 0x00 and
\* GPIO = 0x00, in this order, before it returns.
C25_BeginConfigures ==
    (Called("I2CIO::begin") /\ IsMCP(_chipType)) =>
        \E i, j, k \in DOMAIN wire :
            /\ i < j /\ j < k
            /\ ~wire[i].rd /\ wire[i].bytes = << MCP23008_IOCON, IOCON_BYTE_MODE >>
            /\ ~wire[j].rd /\ wire[j].bytes = << MCP23008_IODIR, 0 >>
            /\ ~wire[k].rd /\ wire[k].bytes = << MCP23008_GPIO, 0 >>

\* C27 (SpecBacklight): in every state the backlight status mask is 0 or
\* the backlight pin mask configured at present.
C27_StatusMaskIsPinMask ==
    _backlightStsMask \in { 0, _backlightPinMask }

\* C28: a setBacklight call on an object whose address is still
\* IIC_ADDR_UNKNOWN opens no transaction.
C28_NoBacklightWriteUnlocated ==
    (Called("setBacklight") /\ _Addr = IIC_ADDR_UNKNOWN) => wire = << >>

\* C29 as stated: a begin that locates the address for an object whose
\* chip type was given adopts a device that the identification probe
\* classifies as that chip type.
C29_AdoptsSameType ==
    (/\ Called("begin")
     /\ call.addr0 = IIC_ADDR_UNKNOWN
     /\ call.type0 # IIC_UNKNOWN
     /\ _Addr # IIC_ADDR_UNKNOWN) =>
        IdentifyIOexp(_Addr).chiptype = call.type0

\* C29 amended: a begin that locates the address for an object whose chip
\* type was given adopts the lowest address whose device the probe
\* classifies as a PCF8574 or as an MCP23008, and keeps the chip type it
\* was given without comparing it with the probe's result.
C29_AdoptsFirstIdentified ==
    (/\ Called("begin")
     /\ call.addr0 = IIC_ADDR_UNKNOWN
     /\ call.type0 # IIC_UNKNOWN
     /\ _Addr # IIC_ADDR_UNKNOWN) =>
        /\ _Addr \in DOMAIN dev
        /\ IdentifyIOexp(_Addr).chiptype # IIC_UNKNOWN
        /\ \A a \in DOMAIN dev :
              a < _Addr => IdentifyIOexp(a).chiptype = IIC_UNKNOWN
        /\ _iicType = call.type0
        /\ \A i \in DOMAIN InitLog :
              InitLog[i].by = "init" => InitLog[i].addr = _Addr

\* C29: an object constructed as a PCF8574 board adopts the device at 32,
\* which the probe classifies as an MCP23008, passing over an unidentified
\* device at 0, and configures it as a PCF8574
C29_Witness ==
    /\ Called("begin")
    /\ call.addr0 = IIC_ADDR_UNKNOWN
    /\ call.type0 = IIC_PCF8574
    /\ DOMAIN dev = { 0, 32 }
    /\ _Addr = 32
    /\ IdentifyIOexp(32).chiptype = IIC_MCP23008
    /\ _iicType = IIC_PCF8574
    /\ ConfigLog = << Tx("init", 32, FALSE, << 0 >>) >>

\* C30 (SpecIO): digitalWrite(pin, level) on an initialised handle, pin
\* in 0..7, leaves the direction mask and every bit of the shadow other
\* than bit `pin' as they were, and changes bit `pin' only if the pin is
\* an output.
C30_DigitalWriteOneBit ==
    [][(call'.name = "I2CIO::digitalWrite" /\ _initialised /\ call'.args[1] <= 7) =>
          /\ _dirMask' = _dirMask
          /\ \A b \in 0..7 :
                Bit(_shadow', b) # Bit(_shadow, b) =>
                    (b = call'.args[1] /\ Bit(_dirMask, b) = 0)]_vars

=============================================================================
